---------------------------- MODULE Spec2Model ----------------------------
(***************************************************************************)
(* The threaded orchestrator of the Amazon scraping pipeline (main.py):    *)
(* a pool of worker threads sharing one task queue, one result list, one   *)
(* stop event and one browser driver, and the main thread that waits for   *)
(* the queue, joins the workers, quits the driver and saves the results.   *)
(*                                                                         *)
(* A record keeps the two fields the orchestrator itself decides           *)
(* (search_term and rank); what the pages contain is not modelled, so the  *)
(* number of results of a search and the failure of a fetch are free.      *)
(***************************************************************************)
EXTENDS Integers, Sequences, FiniteSets, TLC

(* Bound of the model: the size of a run's input, counted as the number of
   search terms plus --threads plus --max-results. *)
MaxSize == 5

(* The same bound for the runs checked for progress under fairness. *)
MaxLiveSize == 4

VARIABLES
    terms,            \* main: terms, the list load_search_terms returned
    threads,          \* main: args.threads
    max_results,      \* main: args.max_results
    task_queue,       \* main: task_queue, the items still queued
    unfinished_tasks, \* Queue.unfinished_tasks, what task_queue.join() waits on
    result_list,      \* main: results, shared by every worker
    stop_event,       \* main: stop_event
    driver_open,      \* FALSE once driver.quit() was called
    main_pc,          \* position of the main thread
    saved,            \* the batches handed to save_results, in call order
    pc,               \* position of each worker thread
    term,             \* worker: term
    search_res,       \* worker: the results of search_res not yet iterated
    deq_count,        \* history: how often each term was returned by get
    stop_len,         \* history: terms dequeued when stop_event was set, else -1
    window,           \* history: workers between check and get at that moment
    late_deq,         \* history: per worker, dequeues after stop_event was set
    n_appends,        \* history: completed result_list.append calls
    failed,           \* history: terms whose processing raised
    last_fetch,       \* history: per worker, how its latest driver.get went
    price_text,       \* parse_price: its argument
    parse_pc,         \* parse_price: "idle", "call", "returned" or "raised"
    parse_ret,        \* parse_price: what it returned, or the exception
    variant,          \* which extractor runs: "scraper" or "asin"
    step,             \* extractor: the statement it is at
    sel,              \* extractor: index of the selector tried next
    data,             \* extractor: data, the record being filled
    doc,              \* history: the wait for dp-container returned
    exc_step,         \* history: the exception that left the try, and where
    visited,          \* history: the fields whose extraction was run
    first_dollar,     \* history: first price locator with a '$' text
    first_priced,     \* history: first such locator with a non-zero parse
    probes,           \* history: price locators evaluated so far
    pricing_data,     \* caller: the records returned so far
    summary,          \* caller: the counts logged at the end, or None
    outcome,          \* caller: who ran the scrape and what it reported
    put_log,          \* save_results: how each s3.put_object call went
    max_retries,      \* load_search_terms: max_retries
    s3_object,           \* the list the S3 object holds
    attempt,          \* load_search_terms: attempt
    load_pc,          \* load_search_terms: "idle", "loop", "get", "parse", "except", "returned"
    load_log,         \* history: how each attempt went
    sleeps,           \* history: the arguments of time.sleep, in call order
    load_ret,         \* load_search_terms: the list it returned
    asins,            \* sequential runner: asins
    runner,           \* which runner: "scrape_multiple_asins" or "main"
    runner_i,         \* sequential runner: i of enumerate(asins, 1)
    runner_results    \* sequential runner: results / all_pricing_data

vars == <<terms, threads, max_results, task_queue, unfinished_tasks,
          result_list, stop_event, driver_open, main_pc, saved,
          pc, term, search_res, deq_count, stop_len, window, late_deq,
          n_appends, failed, last_fetch,
          price_text, parse_pc, parse_ret,
          variant, step, sel, data, doc, exc_step, visited, first_dollar,
          first_priced, probes, pricing_data, summary, outcome, put_log,
          max_retries, s3_object, attempt, load_pc, load_log, sleeps, load_ret,
          asins, runner, runner_i, runner_results>>

(* The variables of the price scrapers, which the worker pool never touches. *)
parseVars == <<price_text, parse_pc, parse_ret>>
extractVars == <<variant, step, sel, data, doc, exc_step, visited,
                 first_dollar, first_priced, probes, pricing_data, summary,
                 outcome>>
storageVars == <<max_retries, s3_object, attempt, load_pc, load_log, sleeps,
                 load_ret>>
runnerVars == <<asins, runner, runner_i, runner_results>>
otherVars == <<parseVars, extractVars, storageVars, runnerVars>>

(* Python's None and a present value: a field is None or holds one value. *)
None == <<>>
Some(x) == <<x>>

(* main.py imports neither price scraper: nothing of them runs in its
   process. *)
(* No exception has left the extractor's try block. *)
NoExc == [step |-> "none", exc |-> "none"]

ParseIdle ==
    /\ price_text = <<>>
    /\ parse_pc = "idle"
    /\ parse_ret = None

ExtractIdle ==
    /\ variant = "none"
    /\ step = "idle"
    /\ sel = 1
    /\ data = None
    /\ doc = FALSE
    /\ exc_step = NoExc
    /\ visited = {}
    /\ first_dollar = None
    /\ first_priced = None
    /\ probes = 0
    /\ pricing_data = <<>>
    /\ summary = None
    /\ outcome = None

LoadIdle ==
    /\ max_retries = 3
    /\ s3_object = [kind |-> "list", value |-> <<>>]
    /\ attempt = 1
    /\ load_pc = "idle"
    /\ load_log = <<>>
    /\ sleeps = <<>>
    /\ load_ret = <<>>

RunnerIdle ==
    /\ asins = <<>>
    /\ runner = "none"
    /\ runner_i = 1
    /\ runner_results = <<>>

OthersIdle == ParseIdle /\ ExtractIdle /\ LoadIdle /\ RunnerIdle

(* worker: term before the first task_queue.get. *)
NoTerm == 0

Workers == 1..threads

Range(s) == {s[i] : i \in 1..Len(s)}

(* The one driver main creates and passes to every Thread. *)
DriverOf(w) == "driver"

(* A worker between its dequeue and its task_done is using the driver. *)
InFlight(w) ==
    pc[w] \in {"search_get", "search_find", "detail_get", "detail_append"}

----------------------------------------------------------------------------
(* Pure helpers of the worker loop. *)

(* A loop that never looks at the stop event. *)
LoopIgnoresStop == TRUE

(* while not stop_event.is_set() *)
LoopContinues == ~stop_event

(* A get that returns the head and leaves it queued. *)
QueuePeek(q) == q

(* Queue.get removes the head it returns. *)
QueueAfterGet(q) == Tail(q)

(* A worker that goes back to the while condition when the queue is
   empty. *)
EmptyRetries == "check"

(* except Empty: return *)
AfterEmpty == "exited"

(* A join that returns as soon as no item is queued. *)
QueueDrained == task_queue = <<>>

(* Queue.join() blocks until every item that was put has been marked by
   task_done. *)
AllTasksDone == unfinished_tasks = 0

(* A worker without the except clause: the exception ends the thread. *)
FailureKillsWorker == "exited"

(* except Exception: log, then fall through to task_done. *)
AfterFailure == "task_done"

(* A fetch that returns with the sleep after it left out. *)
FetchWithoutSleep == "ok"

(* driver.get returned: time.sleep(random.uniform(2, 5)) follows at once. *)
AfterOkFetch == "ok_slept"

(* A result loop that never breaks at max_results. *)
SearchResultsUncapped(n) == [i \in 1..n |-> i]

(* get_search_results: rank counts from 1 and the loop breaks once
   rank > max_results, so n found links give min(n, max_results) results. *)
SearchResults(n) ==
    [i \in 1..(IF n > max_results THEN max_results ELSE n) |-> i]

(* record = {**res, **details, 'search_term': term} *)
MakeRecord(res, t) == [rank |-> res, search_term |-> t]

(* An append that writes over the last slot it read (a lost update). *)
LossyAppend(list, rec) ==
    IF list = <<>> THEN <<rec>> ELSE [list EXCEPT ![Len(list)] = rec]

(* result_list.append(record) *)
SinkAppend(list, rec) == Append(list, rec)

----------------------------------------------------------------------------
(* The state when main reaches task_queue.join(): the terms are queued and
   every worker thread is started, for an input of size at most k. *)
InitSized(k) ==
    /\ \E n \in 0..k : terms = [i \in 1..n |-> i]
    /\ threads \in 1..k
    /\ max_results \in 1..k
    /\ Len(terms) + threads + max_results <= k
    /\ task_queue = terms
    /\ unfinished_tasks = Len(terms)
    /\ result_list = <<>>
    /\ stop_event = FALSE
    /\ driver_open = TRUE
    /\ main_pc = "join"
    /\ saved = <<>>
    /\ put_log = <<>>
    /\ pc = [w \in Workers |-> "check"]
    /\ term = [w \in Workers |-> NoTerm]
    /\ search_res = [w \in Workers |-> <<>>]
    /\ deq_count = [t \in Range(terms) |-> 0]
    /\ stop_len = -1
    /\ window = {}
    /\ late_deq = [w \in Workers |-> 0]
    /\ n_appends = 0
    /\ failed = {}
    /\ last_fetch = [w \in Workers |-> "none"]

Init == InitSized(MaxSize) /\ OthersIdle

inputs == <<terms, threads, max_results>>
mainVars == <<main_pc, saved, put_log, driver_open, stop_event, stop_len,
              window>>

(* Daemon threads run until the process ends. *)
Alive == main_pc # "done"

(* worker: the while condition. *)
CheckStop(w) ==
    /\ Alive /\ pc[w] = "check"
    /\ pc' = [pc EXCEPT ![w] = IF LoopContinues THEN "get" ELSE "exited"]
    /\ UNCHANGED <<otherVars, inputs, mainVars, last_fetch, task_queue, unfinished_tasks,
                   result_list, term, search_res, deq_count, late_deq,
                   n_appends, failed>>

(* worker: term = task_queue.get(timeout=1); Empty returns. *)
QueueGet(w) ==
    /\ Alive /\ pc[w] = "get"
    /\ IF task_queue # <<>>
       THEN /\ term' = [term EXCEPT ![w] = Head(task_queue)]
            /\ task_queue' = QueueAfterGet(task_queue)
            /\ deq_count' = [deq_count EXCEPT ![Head(task_queue)] = @ + 1]
            /\ late_deq' = [late_deq EXCEPT ![w] =
                               IF stop_event THEN @ + 1 ELSE @]
            /\ pc' = [pc EXCEPT ![w] = "search_get"]
       ELSE /\ pc' = [pc EXCEPT ![w] = AfterEmpty]
            /\ UNCHANGED <<term, task_queue, deq_count, late_deq>>
    /\ UNCHANGED <<otherVars, inputs, mainVars, last_fetch, unfinished_tasks, result_list,
                   search_res, n_appends, failed>>

(* The except handler of the worker: nothing is appended. *)
Raised(w) ==
    /\ pc' = [pc EXCEPT ![w] = AfterFailure]
    /\ failed' = failed \cup {term[w]}
    /\ search_res' = [search_res EXCEPT ![w] = <<>>]

(* get_search_results: driver.get(url) returns and the sleep follows, or
   it raises (always on a driver that was quit). *)
SearchGet(w) ==
    /\ Alive /\ pc[w] = "search_get"
    /\ \/ /\ driver_open
          /\ pc' = [pc EXCEPT ![w] = "search_find"]
          /\ last_fetch' = [last_fetch EXCEPT ![w] = AfterOkFetch]
          /\ UNCHANGED <<failed, search_res>>
       \/ /\ Raised(w)
          /\ last_fetch' = [last_fetch EXCEPT ![w] = "failed"]
    /\ UNCHANGED <<otherVars, inputs, mainVars, task_queue, unfinished_tasks, result_list,
                   term, deq_count, late_deq, n_appends>>

(* get_search_results: find_elements and the loop over the items.  No item
   found, a link missing or a closed driver raises (the handlers there use
   logging and NoSuchElementException, which the module never imports). *)
SearchFind(w) ==
    /\ Alive /\ pc[w] = "search_find"
    /\ \/ /\ driver_open
          /\ \E n \in 0..(max_results + 1) :
               /\ search_res' = [search_res EXCEPT ![w] = SearchResults(n)]
               /\ pc' = [pc EXCEPT ![w] =
                            IF n = 0 THEN "task_done" ELSE "detail_get"]
          /\ UNCHANGED failed
       \/ Raised(w)
    /\ UNCHANGED <<otherVars, inputs, mainVars, last_fetch, task_queue, unfinished_tasks,
                   result_list, term, deq_count, late_deq, n_appends>>

(* extract_product_details: driver.get(url) returns and the sleep follows,
   or it raises (always on a driver that was quit). *)
DetailGet(w) ==
    /\ Alive /\ pc[w] = "detail_get"
    /\ \/ /\ driver_open
          /\ pc' = [pc EXCEPT ![w] = "detail_append"]
          /\ last_fetch' = [last_fetch EXCEPT ![w] = AfterOkFetch]
          /\ UNCHANGED <<failed, search_res>>
       \/ /\ Raised(w)
          /\ last_fetch' = [last_fetch EXCEPT ![w] = "failed"]
    /\ UNCHANGED <<otherVars, inputs, mainVars, task_queue, unfinished_tasks, result_list,
                   term, deq_count, late_deq, n_appends>>

(* extract_product_details reads the fields, then worker:
   result_list.append(record), the pacing sleep, the next res.  The lookups
   are guarded but for desc_elem.text, which raises on a stale element. *)
DetailAppend(w) ==
    /\ Alive /\ pc[w] = "detail_append"
    /\ \/ /\ result_list' = SinkAppend(result_list,
                                       MakeRecord(Head(search_res[w]), term[w]))
          /\ n_appends' = n_appends + 1
          /\ search_res' = [search_res EXCEPT ![w] = Tail(search_res[w])]
          /\ pc' = [pc EXCEPT ![w] =
                       IF Tail(search_res[w]) = <<>> THEN "task_done"
                                                     ELSE "detail_get"]
          /\ UNCHANGED failed
       \/ /\ Raised(w)
          /\ UNCHANGED <<result_list, n_appends>>
    /\ UNCHANGED <<otherVars, inputs, mainVars, last_fetch, task_queue, unfinished_tasks,
                   term, deq_count, late_deq>>

(* worker: task_queue.task_done(), back to the while condition. *)
TaskDone(w) ==
    /\ Alive /\ pc[w] = "task_done"
    /\ unfinished_tasks' = unfinished_tasks - 1
    /\ term' = [term EXCEPT ![w] = NoTerm]
    /\ pc' = [pc EXCEPT ![w] = "check"]
    /\ UNCHANGED <<otherVars, inputs, mainVars, last_fetch, task_queue, result_list,
                   search_res, deq_count, late_deq, n_appends, failed>>

workerVars == <<pc, term, search_res, deq_count, late_deq, n_appends, failed,
                last_fetch, task_queue, unfinished_tasks, result_list>>

(* main: task_queue.join() returns once every item was task_done. *)
JoinReturns ==
    /\ main_pc = "join" /\ AllTasksDone
    /\ main_pc' = "join_threads"
    /\ UNCHANGED <<otherVars, inputs, workerVars, saved, put_log, driver_open, stop_event,
                   stop_len, window>>

(* main: KeyboardInterrupt inside task_queue.join(); stop_event.set(). *)
Interrupt ==
    /\ main_pc = "join"
    /\ stop_event' = TRUE
    /\ stop_len' = Len(terms) - Len(task_queue)
    /\ window' = {w \in Workers : pc[w] = "get"}
    /\ main_pc' = "join_threads"
    /\ UNCHANGED <<otherVars, inputs, workerVars, saved, put_log, driver_open>>

(* main: for t in threads: t.join(timeout=5); a join returns when its
   thread has exited or after 5 seconds, whichever comes first.  A thread
   between two terms exits or takes a term within the second its get waits,
   so the five seconds run out only on a thread busy with a term. *)
JoinThreads ==
    /\ main_pc = "join_threads"
    /\ \A w \in Workers : pc[w] = "exited" \/ InFlight(w)
    /\ main_pc' = "quit"
    /\ UNCHANGED <<otherVars, inputs, workerVars, saved, put_log, driver_open, stop_event,
                   stop_len, window>>

(* main: driver.quit() *)
DriverQuit ==
    /\ main_pc = "quit"
    /\ driver_open' = FALSE
    /\ main_pc' = "save"
    /\ UNCHANGED <<otherVars, inputs, workerVars, saved, put_log, stop_event, stop_len, window>>

(* main: save_results(bucket, key, results) serialises the list as it is
   and calls s3.put_object once; a ClientError is logged there and
   save_results returns None all the same. *)
SaveResults ==
    /\ main_pc = "save"
    /\ saved' = Append(saved, result_list)
    /\ \E r \in {"ok", "ClientError"} : put_log' = Append(put_log, r)
    /\ main_pc' = "summary"
    /\ UNCHANGED <<otherVars, inputs, workerVars, driver_open, stop_event, stop_len,
                   window>>

(* main: the summary is logged and main returns; the process ends and takes
   the daemon threads with it. *)
ProcessExit ==
    /\ main_pc = "summary"
    /\ main_pc' = "done"
    /\ UNCHANGED <<otherVars, inputs, workerVars, saved, put_log, driver_open, stop_event,
                   stop_len, window>>

(* Every step of worker thread w. *)
WorkerNext(w) ==
    /\ w \in Workers
    /\ \/ CheckStop(w)
       \/ QueueGet(w)
       \/ SearchGet(w)
       \/ SearchFind(w)
       \/ DetailGet(w)
       \/ DetailAppend(w)
       \/ TaskDone(w)

(* Every step of the main thread that is its own (not the interrupt). *)
MainNext ==
    \/ JoinReturns
    \/ JoinThreads
    \/ DriverQuit
    \/ SaveResults
    \/ ProcessExit

Next ==
    \/ \E w \in Workers : CheckStop(w)
    \/ \E w \in Workers : QueueGet(w)
    \/ \E w \in Workers : SearchGet(w)
    \/ \E w \in Workers : SearchFind(w)
    \/ \E w \in Workers : DetailGet(w)
    \/ \E w \in Workers : DetailAppend(w)
    \/ \E w \in Workers : TaskDone(w)
    \/ JoinReturns
    \/ JoinThreads
    \/ DriverQuit
    \/ SaveResults
    \/ ProcessExit
    \/ Interrupt

Spec == Init /\ [][Next]_vars

(* The same start for the runs checked for progress. *)
LiveInit == InitSized(MaxLiveSize) /\ OthersIdle

(* The interpreter schedules every live thread, and every driver call
   returns or raises (set_page_load_timeout(30)); a KeyboardInterrupt is the
   environment's and need not come. *)
FairSpec ==
    /\ LiveInit
    /\ [][Next]_vars
    /\ \A w \in 1..MaxLiveSize : WF_vars(WorkerNext(w))
    /\ WF_vars(MainNext)


----------------------------------------------------------------------------
(* Vocabulary of the properties. *)

(* The run was not cancelled and task_queue.join() has returned. *)
Completed == main_pc # "join" /\ ~stop_event

(* The positions in result_list of the records of term t. *)
RecordsOf(t) == {i \in DOMAIN result_list : result_list[i].search_term = t}

(* A record that marks term t as failed. *)
HasFailureRecord(t) ==
    \E i \in RecordsOf(t) : "error" \in DOMAIN result_list[i]

----------------------------------------------------------------------------
(* C1 (as stated): a completed, non-cancelled run over N distinct terms
   leaves exactly N records in result_list, one for each term, whatever the
   number of workers. *)
C1_OneRecordPerItem ==
    Completed =>
        /\ Len(result_list) = Len(terms)
        /\ \A t \in Range(terms) : Cardinality(RecordsOf(t)) = 1

(* C1 (amended): a completed, non-cancelled run leaves in result_list only
   records whose search_term is an input term, and for each input term at
   most max_results of them, with ranks 1..k in that order; so between 0
   and N * max_results records, whatever the number of workers. *)
C1_AtMostMaxResultsPerItem ==
    Completed =>
        /\ \A i \in DOMAIN result_list :
              result_list[i].search_term \in Range(terms)
        /\ \A t \in Range(terms) :
              /\ Cardinality(RecordsOf(t)) <= max_results
              /\ {result_list[i].rank : i \in RecordsOf(t)}
                    = 1..Cardinality(RecordsOf(t))
        /\ Len(result_list) <= Len(terms) * max_results

(* C1 witness: a completed run over at least one term whose result_list is
   longer than the term list. *)
C1_Witness ==
    /\ Completed /\ main_pc = "done"
    /\ Len(terms) >= 1
    /\ Len(result_list) > Len(terms)

(* C2: every term is returned by task_queue.get at most once, is held by
   at most one worker, and is never queued again once dequeued, also when
   its processing raised. *)
C2_DequeuedAtMostOnce ==
    \A t \in Range(terms) :
        /\ deq_count[t] <= 1
        /\ Cardinality({w \in Workers : term[w] = t}) <= 1
        /\ deq_count[t] >= 1 => t \notin Range(task_queue)

(* C2 witness: the processing of a term raised in a run with one worker,
   the term is not queued again, and the worker holds another term. *)
C2_Witness ==
    \E t \in failed :
        /\ threads = 1
        /\ deq_count[t] = 1
        /\ t \notin Range(task_queue)
        /\ term[1] # NoTerm /\ term[1] # t

(* C3 (as stated): no driver session is used by two workers, so two
   fetch/extract cycles in flight never share a driver. *)
C3_DriverNotShared ==
    \A v, w \in Workers :
        (v # w /\ InFlight(v) /\ InFlight(w)) => DriverOf(v) # DriverOf(w)

(* C4 (as stated): when the processing of a term raised, a failure record
   carrying the term and an error is in result_list before the worker
   marks the task done and takes the next term. *)
C4_FailureRecordAppended ==
    \A w \in Workers :
        (pc[w] = "task_done" /\ term[w] \in failed)
            => HasFailureRecord(term[w])

(* Every term has been dequeued and marked done. *)
AllProcessed == task_queue = <<>> /\ unfinished_tasks = 0

(* C5: a failure never aborts the batch: once the processing of a term has
   raised, every term of the list is still dequeued and marked done, unless
   the run is cancelled. *)
C5_FailureDoesNotAbort == (failed # {}) ~> (AllProcessed \/ stop_event)

(* C5 witness: a term's processing raised, and the run went on to process
   every term and collected records of another term. *)
C5_Witness ==
    /\ failed # {} /\ ~stop_event /\ AllProcessed
    /\ \E i \in DOMAIN result_list : result_list[i].search_term \notin failed

(* The terms whose records are in the batch handed to save_results. *)
SavedTerms == {saved[1][i].search_term : i \in DOMAIN saved[1]}

(* C6 (as stated): when the run is cancelled after exactly k terms were
   dequeued, the batch handed to save_results holds the records of exactly
   those k terms, and no other term is ever dequeued. *)
C6_CancelKeepsExactlyDequeued ==
    (stop_event /\ saved # <<>>) =>
        /\ SavedTerms = {terms[i] : i \in 1..stop_len}
        /\ Len(terms) - Len(task_queue) = stop_len

(* C7 (as stated): once stop_event is set, the number of dequeued terms
   does not grow. *)
C7_NoDequeueAfterStop ==
    stop_event => Len(terms) - Len(task_queue) = stop_len

(* C7 (amended): once stop_event is set, a worker dequeues at most one more
   term, and only a worker that had already passed the while condition and
   not yet called task_queue.get when the event was set; a worker that
   evaluates the while condition afterwards dequeues nothing. *)
C7_AtMostOneLateDequeue ==
    stop_event =>
        /\ \A w \in Workers : late_deq[w] <= (IF w \in window THEN 1 ELSE 0)
        /\ Len(terms) - Len(task_queue) <= stop_len + Cardinality(window)

(* C7 witness: a worker dequeued a term after stop_event was set. *)
C7_Witness == stop_event /\ \E w \in Workers : late_deq[w] = 1

(* C8 (as stated): after cancellation, the driver is not quit and the batch
   is not handed to save_results while a worker is still fetching or
   extracting. *)
C8_InFlightCompletes ==
    (stop_event /\ \E w \in Workers : InFlight(w)) =>
        (driver_open /\ saved = <<>>)

(* A record as the worker builds it before the append. *)
CompleteRecord(r) ==
    /\ DOMAIN r = {"rank", "search_term"}
    /\ r.rank \in 1..max_results
    /\ r.search_term \in Range(terms)

(* C9: no append to result_list is lost or duplicated, and result_list and
   every batch read from it hold complete records only. *)
C9_AppendsAtomic ==
    /\ Len(result_list) = n_appends
    /\ \A i \in DOMAIN result_list : CompleteRecord(result_list[i])
    /\ \A b \in DOMAIN saved :
          \A i \in DOMAIN saved[b] : CompleteRecord(saved[b][i])

(* C9 witness: two workers appended, the later-dequeued term first. *)
C9_Witness ==
    /\ Len(result_list) >= 2
    /\ result_list[1].search_term = 2
    /\ result_list[2].search_term = 1

(* The step is a driver.get of worker w. *)
FetchStep(w) == pc[w] \in {"search_get", "detail_get"} /\ pc'[w] # pc[w]

----------------------------------------------------------------------------
(* parse_price of amazon_asin_pricing_scraper.py and                       *)
(* AmazonPricingScraper._parse_price of amazon_pricing_scraper.py.         *)

(* Bound: the number of characters of a text handed to parse_price. *)
MaxTextLen == 3

(* The characters a price text is made of: the currency symbol, three digits,
   the decimal point, a blank and a dash. *)
Digits == {"0", "1", "8"}
PriceChars == {"$", ".", " ", "-"} \cup Digits

(* str values of at most k characters. *)
Texts(k) == UNION {[1..n -> PriceChars] : n \in 0..k}

DigitVal(c) == IF c = "0" THEN 0 ELSE IF c = "1" THEN 1 ELSE 8

RECURSIVE Pow10(_)
Pow10(n) == IF n = 0 THEN 1 ELSE 10 * Pow10(n - 1)

(* A float is kept as the exact count of units of 10^-MaxTextLen, which no
   numeral of the texts above falls between. *)
Unit == Pow10(MaxTextLen)

(* A substitution that drops the decimal points as well. *)
cleaned_digits_only(t) == SelectSeq(t, LAMBDA c : c \in Digits)

(* cleaned_price = re.sub(r'[^\d.]', '', price_text) *)
cleaned_price(t) == SelectSeq(t, LAMBDA c : c \in Digits \cup {"."})

Dots(s) == Cardinality({i \in DOMAIN s : s[i] = "."})

HasDigit(s) == \E i \in DOMAIN s : s[i] \in Digits

(* float(s), for s of digits and points, raises ValueError unless s is a
   numeral: at least one digit and at most one point. *)
FloatRaises(s) == Dots(s) > 1 \/ ~HasDigit(s)

(* The digits of s read as one integer, the point skipped. *)
RECURSIVE Mantissa(_)
Mantissa(s) ==
    IF s = <<>> THEN 0
    ELSE LET c == s[Len(s)]
             front == SubSeq(s, 1, Len(s) - 1)
         IN  IF c = "." THEN Mantissa(front)
             ELSE 10 * Mantissa(front) + DigitVal(c)

(* The number of digits after the point. *)
Decimals(s) ==
    IF Dots(s) = 0 THEN 0 ELSE Len(s) - (CHOOSE i \in DOMAIN s : s[i] = ".")

(* float(s) where it does not raise. *)
FloatValue(s) == Mantissa(s) * Pow10(MaxTextLen - Decimals(s))

(* An except clause that catches nothing. *)
ParseCatchesNothing == {}

(* except (ValueError, AttributeError): pass *)
ParseCaught == {"ValueError", "AttributeError"}

(* The try block of both functions and the return None after it. *)
try_parse(t) ==
    LET cleaned == cleaned_price(t)
    IN  IF cleaned = <<>> THEN [pc |-> "returned", ret |-> None]
        ELSE IF ~FloatRaises(cleaned)
             THEN [pc |-> "returned", ret |-> Some(FloatValue(cleaned))]
        ELSE IF "ValueError" \in ParseCaught
             THEN [pc |-> "returned", ret |-> None]
        ELSE [pc |-> "raised", ret |-> None]

(* parse_price(price_text): if not price_text: return None, then the try. *)
parse_price(t) ==
    IF t = <<>> THEN [pc |-> "returned", ret |-> None] ELSE try_parse(t)

(* AmazonPricingScraper._parse_price(price_text): the try alone. *)
scraper_parse_price(t) == try_parse(t)

poolVars == <<inputs, mainVars, workerVars>>

(* The price scrapers run in a process of their own, with no worker pool. *)
PoolIdle ==
    /\ terms = <<>>
    /\ threads = 1
    /\ max_results = 1
    /\ task_queue = <<>>
    /\ unfinished_tasks = 0
    /\ result_list = <<>>
    /\ stop_event = FALSE
    /\ driver_open = TRUE
    /\ main_pc = "done"
    /\ saved = <<>>
    /\ put_log = <<>>
    /\ pc = [w \in Workers |-> "exited"]
    /\ term = [w \in Workers |-> NoTerm]
    /\ search_res = [w \in Workers |-> <<>>]
    /\ deq_count = [t \in Range(terms) |-> 0]
    /\ stop_len = -1
    /\ window = {}
    /\ late_deq = [w \in Workers |-> 0]
    /\ n_appends = 0
    /\ failed = {}
    /\ last_fetch = [w \in Workers |-> "none"]

(* A caller is about to hand some text to one of the two functions. *)
ParseInit ==
    /\ PoolIdle
    /\ ExtractIdle
    /\ LoadIdle
    /\ RunnerIdle
    /\ price_text \in Texts(MaxTextLen)
    /\ parse_pc = "call"
    /\ parse_ret = None

CallParsePrice ==
    /\ parse_pc = "call"
    /\ parse_pc' = parse_price(price_text).pc
    /\ parse_ret' = parse_price(price_text).ret
    /\ UNCHANGED <<poolVars, extractVars, storageVars, runnerVars, price_text>>

CallScraperParsePrice ==
    /\ parse_pc = "call"
    /\ parse_pc' = scraper_parse_price(price_text).pc
    /\ parse_ret' = scraper_parse_price(price_text).ret
    /\ UNCHANGED <<poolVars, extractVars, storageVars, runnerVars, price_text>>

ParseNext ==
    \/ CallParsePrice
    \/ CallScraperParsePrice

ParseSpec == ParseInit /\ [][ParseNext]_vars

(* The maximal runs of digits and points of t, as pairs of positions. *)
NumChar(c) == c \in Digits \cup {"."}

Runs(t) ==
    {r \in (DOMAIN t) \X (DOMAIN t) :
        /\ r[1] <= r[2]
        /\ \A k \in r[1]..r[2] : NumChar(t[k])
        /\ r[1] = 1 \/ ~NumChar(t[r[1] - 1])
        /\ r[2] = Len(t) \/ ~NumChar(t[r[2] + 1])}

RunText(t, r) == SubSeq(t, r[1], r[2])

(* A run that is a decimal numeral, and the number it writes: the digits
   before the point count units, those after it tenths, hundredths, ... *)
IsNumeral(s) == HasDigit(s) /\ Dots(s) <= 1

RECURSIVE IntOf(_)
IntOf(s) ==
    IF s = <<>> THEN 0
    ELSE 10 * IntOf(SubSeq(s, 1, Len(s) - 1)) + DigitVal(s[Len(s)])

NumeralValue(s) ==
    IF Dots(s) = 0 THEN IntOf(s) * Unit
    ELSE LET p == CHOOSE i \in DOMAIN s : s[i] = "."
             frac == SubSeq(s, p + 1, Len(s))
         IN  IntOf(SubSeq(s, 1, p - 1)) * Unit
             + IntOf(frac) * Pow10(MaxTextLen - Len(frac))

(* C14: parse_price never raises, whatever text it is given (the empty text
   and a text that keeps several decimal points included), and it returns
   None whenever no digit is left once every character other than a digit
   or a point is removed. *)
C14_ParseNeverRaises ==
    /\ parse_pc # "raised"
    /\ parse_pc = "returned" /\ ~HasDigit(cleaned_price(price_text))
           => parse_ret = None

(* C14: a text that keeps two decimal points was parsed, and gave None. *)
C14_Witness ==
    /\ parse_pc = "returned"
    /\ Dots(cleaned_price(price_text)) > 1
    /\ HasDigit(price_text)
    /\ parse_ret = None

(* C15 as stated: for every text that contains a numeral, whatever stands
   around it, parse_price returns the value of a numeral of the text; for a
   text with no digit it returns None. *)
C15_ParsesEveryNumericSubstring ==
    parse_pc = "returned" =>
        /\ (\E r \in Runs(price_text) : IsNumeral(RunText(price_text, r)))
              => \E r \in Runs(price_text) :
                    /\ IsNumeral(RunText(price_text, r))
                    /\ parse_ret = Some(NumeralValue(RunText(price_text, r)))
        /\ ~HasDigit(price_text) => parse_ret = None

(* C15 amended: when the digits and points of the text form one run and
   that run is a numeral, parse_price returns its value; for a text with
   no digit it returns None. *)
C15_ParsesSingleNumeral ==
    parse_pc = "returned" =>
        /\ \A r \in Runs(price_text) :
               Runs(price_text) = {r} /\ IsNumeral(RunText(price_text, r))
                   => parse_ret = Some(NumeralValue(RunText(price_text, r)))
        /\ ~HasDigit(price_text) => parse_ret = None

(* C15: a text made of the currency symbol and a numeral with decimals was
   parsed to a number. *)
C15_Witness ==
    /\ parse_pc = "returned"
    /\ price_text # <<>> /\ price_text[1] = "$"
    /\ \E r \in Runs(price_text) :
           /\ Runs(price_text) = {r}
           /\ Decimals(RunText(price_text, r)) > 0
           /\ IsNumeral(RunText(price_text, r))
    /\ parse_ret # None

----------------------------------------------------------------------------
(* AmazonPricingScraper.extract_pricing_data of amazon_pricing_scraper.py  *)
(* (variant "scraper") and extract_asin_pricing_details of                 *)
(* amazon_asin_pricing_scraper.py (variant "asin"), run by their callers   *)
(* for one ASIN.  What a locator finds on the page is chosen when the      *)
(* locator is evaluated.  buy_box_price and details_json_ld of the "asin"  *)
(* record are filled inside try/except Exception: pass blocks of their own *)
(* and read by no other statement; they are left out.                      *)

Variants == {"scraper", "asin"}

RECURSIVE lstrip(_)
lstrip(t) == IF t # <<>> /\ Head(t) = " " THEN lstrip(Tail(t)) ELSE t

RECURSIVE rstrip(_)
rstrip(t) ==
    IF t # <<>> /\ t[Len(t)] = " " THEN rstrip(SubSeq(t, 1, Len(t) - 1))
    ELSE t

(* element.text.strip() *)
strip(t) == rstrip(lstrip(t))

(* c in t *)
Contains(t, c) == \E i \in DOMAIN t : t[i] = c

(* bool(x) of an Optional[float]: None and 0.0 are both false. *)
Truthy(x) == x # None /\ x[1] # 0

(* The dict both functions start from. *)
NewData ==
    [asin |-> "B0", title |-> None,
     current_price |-> None, current_price_numeric |-> None,
     list_price |-> None, list_price_numeric |-> None,
     discount_amount |-> None, discount_percentage |-> None,
     availability |-> None, prime_eligible |-> FALSE, seller |-> None,
     error |-> None]

(* The length of each selector list; for the availability of "asin" the
   By.ID lookup counts as the first of five. *)
NumSelectors(v, field) ==
    CASE field = "title" -> IF v = "scraper" THEN 2 ELSE 1
      [] field = "current" -> IF v = "scraper" THEN 11 ELSE 9
      [] field = "list" -> 5
      [] field = "availability" -> IF v = "scraper" THEN 6 ELSE 5
      [] field = "prime" -> 4
      [] field = "seller" -> IF v = "scraper" THEN 4 ELSE 3

(* Texts a price element may show: nothing, a price with blanks around it,
   plain prices, a price of zero, a number without the currency symbol, the
   symbol alone, and a price range. *)
PriceSamples ==
    { <<>>,
      <<" ", "$", "8", "0", " ">>,
      <<"$", "8", "0">>,
      <<"$", "1", "0", "0">>,
      <<"$", "0">>,
      <<"8", "0">>,
      <<"$">>,
      <<"$", "1", ".", "8", "-", "$", "8", ".", "1">> }

(* Texts of a title, availability or seller element. *)
LabelSamples == { <<>>, <<" ">>, <<" ", "T">> }

(* What driver.find_element(...) and .text give for one selector: the
   element is missing (NoSuchElementException), the lookup fails in another
   way (StaleElementReferenceException), or the element's text. *)
Lookup(samples) ==
    {[kind |-> "nse", text |-> <<>>], [kind |-> "exc", text |-> <<>>]}
        \cup {[kind |-> "text", text |-> t] : t \in samples}

(* An outer try that handles the timeout alone. *)
OuterCatchesTimeoutOnly(exc) ==
    IF exc = "TimeoutException"
    THEN [step |-> "return",
          error |-> Some(<<"Timeout loading product page">>)]
    ELSE [step |-> "raised", error |-> None]

(* except TimeoutException: ... except Exception as e: ... of both
   functions: the error message, and control goes on to return data. *)
OuterExcept(exc) ==
    IF exc = "TimeoutException"
    THEN [step |-> "return",
          error |-> Some(<<"Timeout loading product page">>)]
    ELSE [step |-> "return", error |-> Some(<<"Error scraping ASIN", exc>>)]

(* An exception leaves the try block at the current step. *)
Raise(exc) ==
    /\ data' = [data EXCEPT !.error = OuterExcept(exc).error]
    /\ step' = OuterExcept(exc).step
    /\ exc_step' = [step |-> step, exc |-> exc]
    /\ sel' = 1

(* The current step is over; the record is now d. *)
Leave(next, d) ==
    /\ data' = d
    /\ step' = next
    /\ sel' = 1
    /\ exc_step' = exc_step

(* continue: the next selector of the list, or the end of the loop. *)
Continue(field, exhausted) ==
    IF sel < NumSelectors(variant, field)
    THEN sel' = sel + 1 /\ UNCHANGED <<data, step, exc_step>>
    ELSE Leave(exhausted, data)

(* One ASIN is about to be scraped by one of the two functions. *)
ExtractInit ==
    /\ PoolIdle
    /\ ParseIdle
    /\ LoadIdle
    /\ RunnerIdle
    /\ outcome = None
    /\ variant \in Variants
    /\ step = "get"
    /\ sel = 1
    /\ data = NewData
    /\ doc = FALSE
    /\ exc_step = NoExc
    /\ visited = {}
    /\ first_dollar = None
    /\ first_priced = None
    /\ probes = 0
    /\ pricing_data = <<>>
    /\ summary = None

callerVars == <<pricing_data, summary, outcome>>
priceHistory == <<first_dollar, first_priced, probes>>

(* driver.get(product_url) *)
DriverGet ==
    /\ step = "get"
    /\ \/ Leave("wait", data)
       \/ \E exc \in {"TimeoutException", "WebDriverException"} : Raise(exc)
    /\ UNCHANGED <<poolVars, parseVars, storageVars, runnerVars, variant, doc, visited, priceHistory,
                   callerVars>>

(* WebDriverWait(driver, 10).until(presence of dp-container), then the
   random sleep. *)
WaitForPage ==
    /\ step = "wait"
    /\ \/ Leave("title", data) /\ doc' = TRUE
       \/ /\ \E exc \in {"TimeoutException", "WebDriverException"} : Raise(exc)
          /\ doc' = doc
    /\ UNCHANGED <<poolVars, parseVars, storageVars, runnerVars, variant, visited, priceHistory,
                   callerVars>>

(* _extract_title: two selectors, the first non-empty text wins and only
   NoSuchElementException is caught; "asin": one lookup whose text is
   stored as it is, inside try/except Exception: pass. *)
ExtractTitle ==
    /\ step = "title"
    /\ visited' = visited \cup {"title"}
    /\ \E o \in Lookup(LabelSamples) :
          IF variant = "scraper"
          THEN CASE o.kind = "nse" -> Continue("title", "current")
                 [] o.kind = "exc" -> Raise("StaleElementReferenceException")
                 [] OTHER ->
                      IF strip(o.text) # <<>>
                      THEN Leave("current",
                                 [data EXCEPT !.title = Some(strip(o.text))])
                      ELSE Continue("title", "current")
          ELSE IF o.kind = "text"
               THEN Leave("current",
                          [data EXCEPT !.title = Some(strip(o.text))])
               ELSE Leave("current", data)
    /\ UNCHANGED <<poolVars, parseVars, storageVars, runnerVars, variant, doc, priceHistory,
                   callerVars>>


(* A test that takes any non-empty text for a price. *)
AnyText(t) == t # <<>>

(* if price_text and '$' in price_text *)
IsPriceText(t) == t # <<>> /\ Contains(t, "$")

(* One iteration of a price loop for the lookup result o.  "scraper"
   returns the text and its number when the number is true, else goes on
   with the next selector; "asin" stores the text and whatever parse_price
   returned, then breaks. *)
PriceLoopStep(field, o, found, exhausted) ==
    LET stripped == strip(o.text)
        parsed == IF variant = "scraper" THEN scraper_parse_price(stripped)
                  ELSE parse_price(stripped)
        text_key == IF field = "current" THEN "current_price"
                    ELSE "list_price"
        num_key == IF field = "current" THEN "current_price_numeric"
                   ELSE "list_price_numeric"
        stored == [data EXCEPT ![text_key] = Some(stripped),
                               ![num_key] = parsed.ret]
    IN  CASE o.kind = "nse" -> Continue(field, exhausted)
          [] o.kind = "exc" -> Raise("StaleElementReferenceException")
          [] OTHER ->
               IF ~IsPriceText(stripped) THEN Continue(field, exhausted)
               ELSE IF parsed.pc = "raised" THEN Raise("ValueError")
               ELSE IF variant = "asin" \/ Truthy(parsed.ret)
                    THEN Leave(found, stored)
               ELSE Continue(field, exhausted)

(* _extract_current_price, the loop over price_selectors; "asin": the loop
   over current_price_selectors. *)
ExtractCurrentPrice ==
    /\ step = "current"
    /\ visited' = visited \cup {"current"}
    /\ probes' = probes + 1
    /\ \E o \in Lookup(PriceSamples) :
          LET t == strip(o.text)
              dollar == o.kind = "text" /\ t # <<>> /\ Contains(t, "$")
              priced == dollar /\ ~FloatRaises(cleaned_price(t))
                               /\ FloatValue(cleaned_price(t)) # 0
              here == Some([idx |-> sel, text |-> t])
          IN  /\ first_dollar' =
                     IF first_dollar = None /\ dollar THEN here
                     ELSE first_dollar
              /\ first_priced' =
                     IF first_priced = None /\ priced THEN here
                     ELSE first_priced
              /\ PriceLoopStep("current", o, "list",
                       IF variant = "scraper" THEN "json_ld" ELSE "list")
    /\ UNCHANGED <<poolVars, parseVars, storageVars, runnerVars, variant, doc, callerVars>>

(* f"${price:.2f}" for the prices a page's JSON-LD may carry. *)
format_price(p) ==
    CASE p = 0 -> <<"$", "0", ".", "0", "0">>
      [] p = 80 * Unit -> <<"$", "8", "0", ".", "0", "0">>
      [] p = -80 * Unit -> <<"$", "-", "8", "0", ".", "0", "0">>

(* float(offers['price']) for the prices a page's JSON-LD may carry. *)
JsonPrices == {0, 80 * Unit, -80 * Unit}

(* _extract_current_price, after the loop: the first JSON-LD script with
   an offers.price gives the price; whatever goes wrong is passed over. *)
JsonLdFallback ==
    /\ step = "json_ld"
    /\ \/ Leave("list", data)
       \/ \E price \in JsonPrices :
             Leave("list",
                   [data EXCEPT !.current_price = Some(format_price(price)),
                                !.current_price_numeric = Some(price)])
    /\ UNCHANGED <<poolVars, parseVars, storageVars, runnerVars, variant, doc, visited, priceHistory,
                   callerVars>>

(* _extract_list_price; "asin": the loop over list_price_selectors. *)
ExtractListPrice ==
    /\ step = "list"
    /\ visited' = visited \cup {"list"}
    /\ \E o \in Lookup(PriceSamples) :
          PriceLoopStep("list", o, "discount", "discount")
    /\ UNCHANGED <<poolVars, parseVars, storageVars, runnerVars, variant, doc, priceHistory,
                   callerVars>>

(* a / b rounded to the nearest integer, for b > 0. *)
RoundDiv(a, b) == (2 * a + b) \div (2 * b)

(* A difference taken the wrong way round. *)
amount_from_current(current, reference) == current - reference

(* discount_amount = list_price_numeric - current_price_numeric *)
discount_amount(current, reference) == reference - current

(* f"${discount_amount:.2f}", kept as the number of cents it shows. *)
format_amount(amount) == RoundDiv(amount * 100, Unit)

(* f"{(discount_amount / list_price_numeric) * 100:.1f}%", kept as the
   number of tenths of a percent it shows. *)
format_percentage(amount, reference) == RoundDiv(amount * 1000, reference)

(* if data['current_price_numeric'] and data['list_price_numeric']: ... *)
CalculateDiscount ==
    /\ step = "discount"
    /\ visited' = visited \cup {"discount"}
    /\ IF Truthy(data.current_price_numeric)
           /\ Truthy(data.list_price_numeric)
       THEN LET amount == discount_amount(data.current_price_numeric[1],
                                          data.list_price_numeric[1])
            IN  Leave("availability",
                      [data EXCEPT
                          !.discount_amount = Some(format_amount(amount)),
                          !.discount_percentage =
                              Some(format_percentage(amount,
                                       data.list_price_numeric[1]))])
       ELSE Leave("availability", data)
    /\ UNCHANGED <<poolVars, parseVars, storageVars, runnerVars, variant, doc, priceHistory,
                   callerVars>>


(* The loop shared by _extract_title, _extract_availability and
   _extract_seller and by the selector loops of "asin": the first non-empty
   text is stored, a missing element moves on to the next selector, any
   other exception leaves the try. *)
LabelLoopStep(field, o, next) ==
    CASE o.kind = "nse" -> Continue(field, next)
      [] o.kind = "exc" -> Raise("StaleElementReferenceException")
      [] OTHER ->
           IF strip(o.text) # <<>>
           THEN Leave(next, [data EXCEPT ![field] = Some(strip(o.text))])
           ELSE Continue(field, next)

(* _extract_availability; "asin": the By.ID lookup, whose text is stored as
   it is, and on any exception the loop over availability_selectors. *)
ExtractAvailability ==
    /\ step = "availability"
    /\ visited' = visited \cup {"availability"}
    /\ \E o \in Lookup(LabelSamples) :
          IF variant = "asin" /\ sel = 1
          THEN IF o.kind = "text"
               THEN Leave("prime",
                          [data EXCEPT !.availability = Some(strip(o.text))])
               ELSE sel' = 2 /\ UNCHANGED <<data, step, exc_step>>
          ELSE LabelLoopStep("availability", o, "prime")
    /\ UNCHANGED <<poolVars, parseVars, storageVars, runnerVars, variant, doc, priceHistory,
                   callerVars>>

(* _check_prime_eligibility; "asin": the loop over prime_selectors. *)
CheckPrime ==
    /\ step = "prime"
    /\ visited' = visited \cup {"prime"}
    /\ \E o \in Lookup({<<>>}) :
          CASE o.kind = "nse" -> Continue("prime", "seller")
            [] o.kind = "exc" -> Raise("StaleElementReferenceException")
            [] OTHER -> Leave("seller", [data EXCEPT !.prime_eligible = TRUE])
    /\ UNCHANGED <<poolVars, parseVars, storageVars, runnerVars, variant, doc, priceHistory,
                   callerVars>>

(* _extract_seller; "asin": the loop over seller_selectors. *)
ExtractSeller ==
    /\ step = "seller"
    /\ visited' = visited \cup {"seller"}
    /\ \E o \in Lookup(LabelSamples) : LabelLoopStep("seller", o, "return")
    /\ UNCHANGED <<poolVars, parseVars, storageVars, runnerVars, variant, doc, priceHistory,
                   callerVars>>

(* return data, and the caller's results.append(result) /
   all_pricing_data.append(pricing_details). *)
ReturnData ==
    /\ step = "return"
    /\ step' = "returned"
    /\ pricing_data' = Append(pricing_data, data)
    /\ UNCHANGED <<poolVars, parseVars, storageVars, runnerVars, variant, sel, data, doc, exc_step,
                   visited, priceHistory, summary, outcome>>

(* A test that also takes a record without a current price for failed. *)
HasErrorOrNoPrice(item) == item.error # None \/ item.current_price = None

(* item.get('error') as a condition. *)
HasError(item) == item.error # None

(* [item for item in pricing_data if not item.get('error')] *)
successful_scrapes(items) == SelectSeq(items, LAMBDA item : ~HasError(item))

(* [item for item in pricing_data if item.get('error')] *)
failed_scrapes(items) == SelectSeq(items, HasError)

(* AmazonPriceMonitor.run and main of amazon_asin_pricing_scraper.py:
   the two counts of the summary line. *)
LogSummary ==
    /\ step = "returned"
    /\ step' = "summarised"
    /\ summary' = Some([successful |-> Len(successful_scrapes(pricing_data)),
                        failed |-> Len(failed_scrapes(pricing_data))])
    /\ UNCHANGED <<poolVars, parseVars, storageVars, runnerVars, variant, sel, data, doc, exc_step,
                   visited, priceHistory, pricing_data, outcome>>

(* The runs that hand ASINs to the extractor of each file. *)
Callers(v) == IF v = "scraper" THEN {"monitor", "test_scraper"} ELSE {"main"}

(* What the run reports after its summary line: test_scraper.main returns
   successful > 0; AmazonPriceMonitor.run logs 'completed successfully' and
   returns True; main of amazon_asin_pricing_scraper.py logs and returns,
   and the process exits with status 0. *)
RunSucceeded(caller, successful) ==
    IF caller = "test_scraper" THEN successful > 0 ELSE TRUE

(* The end of the run: the value or exit status it reports. *)
ReportOutcome ==
    /\ step = "summarised"
    /\ step' = "reported"
    /\ \E c \in Callers(variant) :
         outcome' = Some([caller |-> c,
                          success |-> RunSucceeded(c, summary[1].successful)])
    /\ UNCHANGED <<poolVars, parseVars, storageVars, runnerVars, variant, sel, data, doc,
                   exc_step, visited, priceHistory, pricing_data, summary>>

ExtractNext ==
    \/ DriverGet
    \/ WaitForPage
    \/ ExtractTitle
    \/ ExtractCurrentPrice
    \/ JsonLdFallback
    \/ ExtractListPrice
    \/ CalculateDiscount
    \/ ExtractAvailability
    \/ CheckPrime
    \/ ExtractSeller
    \/ ReturnData
    \/ LogSummary
    \/ ReportOutcome

ExtractSpec == ExtractInit /\ [][ExtractNext]_vars

----------------------------------------------------------------------------
(* Vocabulary of the extractor's properties. *)

(* The function is past its try block. *)
Done == step \in {"return", "returned", "summarised", "reported"}

(* The loop over the current-price selectors ended without an exception. *)
PriceLoopOver ==
    /\ "current" \in visited
    /\ step # "current"
    /\ exc_step.step # "current"

ExtractedFields ==
    {"title", "current", "list", "discount", "availability", "prime",
     "seller"}

Abs(x) == IF x < 0 THEN -x ELSE x

(* C11: neither extractor raises to its caller; when the page or its
   readiness marker times out the record's error is the timeout message,
   and for any other failure the error carries that failure's
   description. *)
C11_ExtractNeverRaises ==
    /\ step # "raised"
    /\ Done /\ exc_step.exc = "TimeoutException"
           => data.error = Some(<<"Timeout loading product page">>)
    /\ Done /\ exc_step.exc \notin {"none", "TimeoutException"}
           => data.error = Some(<<"Error scraping ASIN", exc_step.exc>>)
    /\ Done /\ exc_step.exc = "none" => data.error = None

(* C11: the wait for the readiness marker failed with something other than
   a timeout, and the record with that description was returned. *)
C11_Witness ==
    /\ step = "returned"
    /\ exc_step = [step |-> "wait", exc |-> "WebDriverException"]
    /\ pricing_data = <<data>>
    /\ data.error = Some(<<"Error scraping ASIN", "WebDriverException">>)

(* C12 as stated: the current price is the text of the first locator whose
   trimmed text is non-empty and contains '$', no locator after that one is
   evaluated, and locators that did not match leave no error. *)
C12_FirstDollarLocatorWins ==
    PriceLoopOver =>
        /\ first_dollar # None =>
               /\ data.current_price = Some(first_dollar[1].text)
               /\ probes = first_dollar[1].idx
        /\ exc_step.exc = "none" => data.error = None

(* C12 amended: the same with "scraper" taking a locator only when its
   text also parses to a number other than zero, and falling back to the
   JSON-LD price when no locator is taken. *)
C12_FirstAcceptedLocatorWins ==
    PriceLoopOver =>
        LET first == IF variant = "asin" THEN first_dollar ELSE first_priced
        IN  /\ first # None =>
                   /\ data.current_price = Some(first[1].text)
                   /\ probes = first[1].idx
            /\ first = None =>
                   /\ probes = NumSelectors(variant, "current")
                   /\ variant = "asin" \/ step = "json_ld"
                          => data.current_price = None
            /\ exc_step.exc = "none" => data.error = None

(* C12: "scraper" passed over a '$' text that gave no number, took a later
   locator and evaluated none after it. *)
C12_Witness ==
    /\ variant = "scraper"
    /\ PriceLoopOver
    /\ first_dollar # None /\ first_priced # None
    /\ first_dollar[1].idx < first_priced[1].idx
    /\ first_priced[1].idx < NumSelectors(variant, "current")
    /\ probes = first_priced[1].idx
    /\ data.current_price = Some(first_priced[1].text)
    /\ step = "returned"

(* C13: once the document is obtained, a field whose extraction fails is
   left absent and every other field of the record is still extracted. *)
C13_FieldFailureIsolated ==
    Done /\ doc => visited = ExtractedFields /\ data.error = None


(* C16: the two discount fields are present exactly when the current and
   the list price both have a number and the list price is above zero. *)
C16_DiscountIffBothPrices ==
    "discount" \in visited /\ step # "discount" =>
        /\ data.discount_amount # None <=> data.discount_percentage # None
        /\ data.discount_amount # None
              <=> /\ data.current_price_numeric # None
                  /\ data.list_price_numeric # None
                  /\ data.list_price_numeric[1] > 0

(* C17: a derived discount amount is the list price minus the current
   price, shown in cents, and the percentage is that amount over the list
   price times 100, shown to the nearest tenth; with a list price of zero
   neither is derived. *)
C17_DiscountArithmetic ==
    /\ data # None /\ data.discount_amount # None =>
          LET current == data.current_price_numeric[1]
              reference == data.list_price_numeric[1]
          IN  /\ reference > 0
              /\ data.discount_amount[1] * Unit = (reference - current) * 100
              /\ 2 * Abs(data.discount_percentage[1] * reference
                           - (reference - current) * 1000) <= reference
    /\ "discount" \in visited /\ data.list_price_numeric = Some(0)
          => data.discount_amount = None /\ data.discount_percentage = None

(* C17: a current price of 80 against a list price of 100 gave $20.00 and
   20.0%. *)
C17_Witness ==
    /\ step = "returned"
    /\ data.current_price_numeric = Some(80 * Unit)
    /\ data.list_price_numeric = Some(100 * Unit)
    /\ data.discount_amount = Some(2000)
    /\ data.discount_percentage = Some(200)

(* C18: every stored price number is non-negative, and a price text that
   does not parse leaves the number absent. *)
C18_PricesNonNegative ==
    data # None =>
        /\ data.current_price_numeric # None
              => data.current_price_numeric[1] >= 0
        /\ data.list_price_numeric # None => data.list_price_numeric[1] >= 0
        /\ data.current_price # None
              /\ FloatRaises(cleaned_price(data.current_price[1]))
              => data.current_price_numeric = None
        /\ data.list_price # None
              /\ FloatRaises(cleaned_price(data.list_price[1]))
              => data.list_price_numeric = None

(* C19: a returned record whose error is set has none of title, current
   price, list price, discount, availability and seller. *)
C19_ErrorRecordIsBare ==
    \A i \in DOMAIN pricing_data :
        HasError(pricing_data[i]) =>
            /\ pricing_data[i].title = None
            /\ pricing_data[i].current_price = None
            /\ pricing_data[i].current_price_numeric = None
            /\ pricing_data[i].list_price = None
            /\ pricing_data[i].list_price_numeric = None
            /\ pricing_data[i].discount_amount = None
            /\ pricing_data[i].discount_percentage = None
            /\ pricing_data[i].availability = None
            /\ pricing_data[i].seller = None

(* C20 as stated: a record whose document was obtained and whose current
   price is absent is stored as it was extracted and counted as a failure,
   not as a success. *)
C20_NoPriceCountsAsFailure ==
    step = "summarised" /\ doc /\ data.current_price = None =>
        /\ pricing_data = <<data>>
        /\ summary = Some([successful |-> 0, failed |-> 1])

(* C20 amended: such a record is stored as it was extracted, and the
   summary counts it by its error alone: as a success when no error is
   set, as a failure when an exception during extraction set one. *)
C20_NoPriceCountedByError ==
    step = "summarised" /\ doc /\ data.current_price = None =>
        /\ pricing_data = <<data>>
        /\ summary = IF data.error = None
                     THEN Some([successful |-> 1, failed |-> 0])
                     ELSE Some([successful |-> 0, failed |-> 1])

(* C20: a record with a title and no current price, and no error, was
   stored and counted as a success. *)
C20_Witness ==
    /\ step = "summarised"
    /\ doc
    /\ data.current_price = None
    /\ data.title # None
    /\ data.error = None
    /\ pricing_data = <<data>>
    /\ summary = Some([successful |-> 1, failed |-> 0])

(***************************************************************************)
(* aws_s3_utils.load_search_terms: the retry loop around get_object.       *)
(***************************************************************************)

(* Largest max_retries a caller passes. *)
MaxRetries == 3

(* backoff: float = 2.0 *)
backoff == 2

(* The bodies the object can hold: a JSON array of terms, text that is not
   JSON, or JSON that is not an array. *)
Objects ==
    [kind : {"list"}, value : {<<>>, <<1>>, <<1, 2>>}]
        \cup {[kind |-> "not_json", value |-> <<>>],
              [kind |-> "not_list", value |-> <<>>]}

(* A loop that gives up one attempt early. *)
LoopStopsEarly == attempt < max_retries

(* while attempt <= max_retries *)
LoopCondition == attempt <= max_retries

(* A wait of the same length after every attempt. *)
ConstantDelay(a) == backoff

(* time.sleep(backoff ** attempt) *)
BackoffDelay(a) == backoff ^ a

(* except (ClientError, ValueError, json.JSONDecodeError) *)
LoadCaught == {"ClientError", "ValueError", "JSONDecodeError"}

LoadInit ==
    /\ PoolIdle /\ ParseIdle /\ ExtractIdle /\ RunnerIdle
    /\ max_retries \in 0..MaxRetries
    /\ s3_object \in Objects
    /\ attempt = 1
    /\ load_pc = "loop"
    /\ load_log = <<>>
    /\ sleeps = <<>>
    /\ load_ret = None

loadFixed == <<poolVars, parseVars, extractVars, runnerVars, max_retries, s3_object>>

(* The while test; when it fails the error is logged and [] is returned. *)
LoopTest ==
    /\ load_pc = "loop"
    /\ IF LoopCondition
       THEN load_pc' = "get" /\ load_ret' = load_ret
       ELSE load_pc' = "returned" /\ load_ret' = Some(<<>>)
    /\ UNCHANGED <<loadFixed, attempt, load_log, sleeps>>

(* s3.get_object(...) and the read of the body: the backend serves the
   object or the call raises ClientError. *)
GetObject ==
    /\ load_pc = "get"
    /\ \E served \in BOOLEAN :
         IF served
         THEN load_pc' = "parse" /\ load_log' = load_log
         ELSE load_pc' = "except" /\ load_log' = Append(load_log, "ClientError")
    /\ UNCHANGED <<loadFixed, attempt, sleeps, load_ret>>

(* json.loads(body), the isinstance test and return data. *)
JsonLoads ==
    /\ load_pc = "parse"
    /\ LET exc == CASE s3_object.kind = "not_json" -> "JSONDecodeError"
                    [] s3_object.kind = "not_list" -> "ValueError"
                    [] OTHER -> "none"
       IN  IF exc = "none"
           THEN /\ load_log' = Append(load_log, "ok")
                /\ load_ret' = Some(s3_object.value)
                /\ load_pc' = "returned"
           ELSE /\ load_log' = Append(load_log, exc)
                /\ load_ret' = load_ret
                /\ load_pc' = IF exc \in LoadCaught THEN "except" ELSE "raised"
    /\ UNCHANGED <<loadFixed, attempt, sleeps>>

(* The except clause: warning, time.sleep(backoff ** attempt), attempt += 1 *)
LoadExcept ==
    /\ load_pc = "except"
    /\ sleeps' = Append(sleeps, BackoffDelay(attempt))
    /\ attempt' = attempt + 1
    /\ load_pc' = "loop"
    /\ UNCHANGED <<loadFixed, load_log, load_ret>>

LoadNext == LoopTest \/ GetObject \/ JsonLoads \/ LoadExcept

LoadSpec == LoadInit /\ [][LoadNext]_vars

(* The attempts so far all failed with ClientError. *)
BackendAlwaysFailed == \A i \in DOMAIN load_log : load_log[i] = "ClientError"

(* C21: when the first two attempts fail with a backend error and up to
   three attempts are allowed, load_search_terms does not return before a
   third attempt, and when that attempt succeeds it returns exactly the
   list the object holds. *)
C21_ThirdAttemptReturnsStoredList ==
    (/\ load_pc = "returned"
     /\ max_retries >= 3
     /\ Len(load_log) >= 2
     /\ load_log[1] = "ClientError" /\ load_log[2] = "ClientError")
        => /\ Len(load_log) >= 3
           /\ load_log[3] = "ok" => load_ret = Some(s3_object.value)

C21_Witness ==
    /\ load_pc = "returned"
    /\ load_log = <<"ClientError", "ClientError", "ok">>
    /\ s3_object.value = <<1, 2>>
    /\ load_ret = Some(<<1, 2>>)

(* C22: against a backend that fails every time, load_search_terms never
   raises, waits backoff^i seconds after attempt i (so the waits grow), and
   returns only after exactly max_retries attempts, with the empty list. *)
C22_GivesUpAfterMaxRetries ==
    /\ load_pc # "raised"
    /\ BackendAlwaysFailed =>
         /\ Len(load_log) <= max_retries
         /\ Len(sleeps) <= Len(load_log)
         /\ \A i \in DOMAIN sleeps : sleeps[i] = backoff ^ i
         /\ \A i \in DOMAIN sleeps : i > 1 => sleeps[i] > sleeps[i - 1]
         /\ load_pc = "returned" =>
              /\ Len(load_log) = max_retries
              /\ Len(sleeps) = max_retries
              /\ load_ret = Some(<<>>)

C22_Witness ==
    /\ load_pc = "returned"
    /\ max_retries = 3
    /\ load_log = <<"ClientError", "ClientError", "ClientError">>
    /\ sleeps = <<2, 4, 8>>
    /\ load_ret = Some(<<>>)

(* C23: when the first attempt finds a body that is not JSON or not a
   list, there is exactly one attempt, no wait, and load_search_terms does
   not return normally. *)
C23_MalformedNotRetried ==
    (load_log # <<>> /\ load_log[1] \in {"JSONDecodeError", "ValueError"})
        => /\ Len(load_log) = 1
           /\ sleeps = <<>>
           /\ load_pc # "returned"

(***************************************************************************)
(* aws_s3_utils.save_results as main calls it.                             *)
(***************************************************************************)

(* save_results has returned to main. *)
SaveReturned == main_pc \in {"summary", "done"}

(* No put_object of the batch succeeded. *)
BatchNotPersisted == put_log # <<>> /\ "ok" \notin Range(put_log)

(* C24: save_results retries like load_search_terms: when the first
   put_object fails with a backend error, a second one is made before
   save_results returns. *)
C24_SaveRetried ==
    (SaveReturned /\ put_log # <<>> /\ put_log[1] = "ClientError")
        => Len(put_log) >= 2

(* C25: when the batch was not persisted, save_results does not return
   normally to main and the run never reports successful completion. *)
C25_SaveFailureIsHard == BatchNotPersisted => ~SaveReturned

(* C26: a run over a non-empty input in which no record succeeded is
   never reported as a successful run. *)
C26_TotalFailureReported ==
    (step = "reported" /\ pricing_data # <<>> /\ summary[1].successful = 0)
        => ~outcome[1].success

(* The run is over: main returned after one save and every worker thread
   has left its loop. *)
Terminated ==
    /\ main_pc = "done"
    /\ \A w \in Workers : pc[w] = "exited"
    /\ Len(saved) = 1

(* C27: a run that is not cancelled terminates: task_queue.join() returns,
   every worker thread exits, and only with the queue empty, and
   save_results is called exactly once. *)
C27_RunTerminates ==
    /\ [](Len(saved) <= 1)
    /\ [](\A w \in Workers : (pc[w] = "exited" /\ ~stop_event) => task_queue = <<>>)
    /\ <>(stop_event \/ Terminated)

(* C27 witness: a run over a non-empty list that was never cancelled has
   ended with every worker exited and one batch saved. *)
C27_Witness ==
    /\ Terminated /\ ~stop_event
    /\ terms # <<>>
    /\ unfinished_tasks = 0

(* C29: in a run that is not cancelled, by the time the batch is handed to
   save_results every term was dequeued once and marked done, no worker is
   still processing a term, and the result list is never appended to
   afterwards: it stays the batch that was saved. *)
C29_SaveAfterAllProcessed ==
    (saved # <<>> /\ ~stop_event) =>
        /\ AllProcessed
        /\ \A t \in Range(terms) : deq_count[t] = 1
        /\ \A w \in Workers : ~InFlight(w) /\ pc[w] # "task_done" /\ term[w] = NoTerm
        /\ saved[1] = result_list

(* C29 witness: a run with two workers that was not cancelled has saved a
   batch holding records of two terms. *)
C29_Witness ==
    /\ saved # <<>> /\ ~stop_event
    /\ threads >= 2
    /\ Cardinality(SavedTerms) >= 2

(***************************************************************************)
(* The sequential ASIN runners: scrape_multiple_asins of                   *)
(* amazon_pricing_scraper.py and the loop of main in                      *)
(* amazon_asin_pricing_scraper.py.                                        *)
(***************************************************************************)

(* Longest ASIN list. *)
MaxAsins == 3

(* The ASINs a list is made of; a list may name one twice. *)
Asins == {1, 2}

AsinLists == UNION {[1..n -> Asins] : n \in 0..MaxAsins}

(* The record an extractor returns for asin: the dict literal carries the
   asin it was called with, and error is set when the scrape failed. *)
ExtractedDetails(asin, ok) ==
    [asin |-> asin, error |-> IF ok THEN None ELSE Some("Error scraping ASIN")]

(* error_record = {'asin': asin, 'error': str(e), 'scraped_at': ...} *)
error_record(asin) == [asin |-> asin, error |-> Some("str(e)")]

(* A runner that keeps the records of the successful scrapes only. *)
AppendIfNoError(results, rec) ==
    IF rec.error # None THEN results ELSE Append(results, rec)

(* results.append(result) *)
AppendResult(results, rec) == Append(results, rec)

RunnerInit ==
    /\ PoolIdle /\ ParseIdle /\ ExtractIdle /\ LoadIdle
    /\ asins \in AsinLists
    /\ runner \in {"scrape_multiple_asins", "main"}
    /\ runner_i = 1
    /\ runner_results = <<>>

runnerFixed == <<poolVars, parseVars, extractVars, storageVars, asins, runner>>

(* scrape_multiple_asins: one turn of for i, asin in enumerate(asins, 1);
   extract_pricing_data returns a record with or without error. *)
ScrapeNextAsin ==
    /\ runner = "scrape_multiple_asins"
    /\ runner_i <= Len(asins)
    /\ \E ok \in BOOLEAN :
         runner_results' = AppendResult(runner_results,
                                        ExtractedDetails(asins[runner_i], ok))
    /\ runner_i' = runner_i + 1
    /\ UNCHANGED runnerFixed

(* main of amazon_asin_pricing_scraper.py: one turn of its loop; the record
   of extract_asin_pricing_details is appended, and whatever the call
   raises is turned into an error_record by the except clause. *)
MainNextAsin ==
    /\ runner = "main"
    /\ runner_i <= Len(asins)
    /\ \E o \in {"ok", "error", "raised"} :
         runner_results' =
             AppendResult(runner_results,
                          IF o = "raised" THEN error_record(asins[runner_i])
                          ELSE ExtractedDetails(asins[runner_i], o = "ok"))
    /\ runner_i' = runner_i + 1
    /\ UNCHANGED runnerFixed

RunnerNext == ScrapeNextAsin \/ MainNextAsin

RunnerSpec == RunnerInit /\ [][RunnerNext]_vars

(* The loop of the runner has ended. *)
RunnerFinished == runner # "none" /\ runner_i = Len(asins) + 1

(* C28: after i turns of the loop the results are the records of the
   first i ASINs in input order, failed or not, so a finished runner holds
   exactly one record per input ASIN and record i carries ASIN i. *)
C28_OneRecordPerAsinInOrder ==
    /\ Len(runner_results) = runner_i - 1
    /\ \A i \in DOMAIN runner_results : runner_results[i].asin = asins[i]
    /\ RunnerFinished => Len(runner_results) = Len(asins)

(* C28 witness: a finished run over a list that names an ASIN twice, with
   a failed scrape followed by a successful one. *)
C28_Witness ==
    /\ RunnerFinished
    /\ Len(asins) >= 3 /\ asins[1] = asins[3] /\ asins[1] # asins[2]
    /\ runner_results[1].error # None
    /\ runner_results[2].error = None
    /\ Len(runner_results) = Len(asins)

(* C30: in every record an extractor returned, each price text is present
   exactly when its numeric value is: current_price with
   current_price_numeric and list_price with list_price_numeric. *)
C30_TextAndNumberTogether ==
    \A i \in DOMAIN pricing_data :
        /\ pricing_data[i].current_price # None
              <=> pricing_data[i].current_price_numeric # None
        /\ pricing_data[i].list_price # None
              <=> pricing_data[i].list_price_numeric # None

=============================================================================
